---- MODULE Spec2Model ----
(***************************************************************************)
(* A model of the two programs of the repository:                          *)
(*   data_anal.py      the offline EEG/ECG analyser (load_signal_data,     *)
(*                     analyze_eeg, analyze_ecg, main);                    *)
(*   flask_app/app.py  the live plotter (receive_data in the Flask thread, *)
(*                     SensorPlotterApp in the Tk thread).                 *)
(* Real numbers are exact rationals [n, d]; d = 0 stands for the           *)
(* non-finite values numpy produces on a division by zero.  Arrays keep    *)
(* the source's indices: they are functions on 0 .. N-1.                   *)
(***************************************************************************)
EXTENDS Integers, Sequences, FiniteSets, TLC

(* ---------------------------------------------------------------------- *)
(* Bounds of the model                                                     *)
(* ---------------------------------------------------------------------- *)
\* the most spikes a filtered ECG signal of the model carries
MaxSpikes == 3
\* the most bins of a PSD estimate of the model that rise above its floor
MaxBumps == 2
\* the most POST requests the sensor sends in a behaviour of the plotter
MaxRequests == 3

(* ---------------------------------------------------------------------- *)
(* Program constants                                                       *)
(* ---------------------------------------------------------------------- *)
EXPECTED_FS == 100
INITIAL_MAX_POINTS == 50

(* ---------------------------------------------------------------------- *)
(* Exact arithmetic                                                        *)
(* ---------------------------------------------------------------------- *)
Abs(x) == IF x < 0 THEN -x ELSE x

RECURSIVE GCD(_, _)
GCD(a, b) == IF b = 0 THEN a ELSE GCD(b, a % b)

Sign(x) == IF x > 0 THEN 1 ELSE IF x < 0 THEN -1 ELSE 0

\* n / d in lowest terms with a positive denominator; x / 0 is inf, -inf or nan
Rat(n, d) ==
    IF d = 0 THEN [n |-> Sign(n), d |-> 0]
    ELSE LET g == GCD(Abs(n), Abs(d))
         IN [n |-> Sign(d) * (n \div g), d |-> Abs(d) \div g]

RInt(k) == [n |-> k, d |-> 1]
RFinite(a) == a.d # 0
RAdd(a, b) == Rat(a.n * b.d + b.n * a.d, a.d * b.d)
RNeg(a) == [n |-> -a.n, d |-> a.d]
RSub(a, b) == RAdd(a, RNeg(b))
RMul(a, b) ==
    LET g1 == GCD(Abs(a.n), b.d)
        g2 == GCD(Abs(b.n), a.d)
    IN Rat((a.n \div g1) * (b.n \div g2), (a.d \div g2) * (b.d \div g1))
RDiv(a, b) == RMul(a, Rat(b.d, b.n))
RLt(a, b) == a.n * b.d < b.n * a.d
RLe(a, b) == a.n * b.d <= b.n * a.d

\* a sequence's elements folded with +
RECURSIVE RSum(_)
RSum(s) == IF s = <<>> THEN RInt(0) ELSE RAdd(Head(s), RSum(Tail(s)))

RECURSIVE RMin(_)
RMin(s) == IF Len(s) = 1 THEN s[1]
           ELSE LET m == RMin(Tail(s)) IN IF RLe(s[1], m) THEN s[1] ELSE m

RECURSIVE RMax(_)
RMax(s) == IF Len(s) = 1 THEN s[1]
           ELSE LET m == RMax(Tail(s)) IN IF RLe(m, s[1]) THEN s[1] ELSE m

\* numpy.mean and the square of numpy.std (ddof = 0) of a non-empty sequence
RMean(s) == RDiv(RSum(s), RInt(Len(s)))
RVarPop(s) ==
    LET m == RMean(s)
    IN RDiv(RSum([i \in 1..Len(s) |-> RMul(RSub(s[i], m), RSub(s[i], m))]),
            RInt(Len(s)))

\* the length of an array (a function on 0 .. N-1)
ALen(a) == Cardinality(DOMAIN a)

\* the sum of a[lo .. hi], by halves
RECURSIVE ASumRange(_, _, _)
ASumRange(a, lo, hi) ==
    IF lo > hi THEN 0
    ELSE IF lo = hi THEN a[lo]
    ELSE LET mid == (lo + hi) \div 2
         IN ASumRange(a, lo, mid) + ASumRange(a, mid + 1, hi)
ASum(a) == ASumRange(a, 0, ALen(a) - 1)

(* ---------------------------------------------------------------------- *)
(* The files and the answers of the user at the prompts of main            *)
(* ---------------------------------------------------------------------- *)
FileInputs == {"sair", "Sair", "missing.csv", "novalue.csv", "empty.csv",
               "short3.csv", "short25.csv", "rec400.csv"}
TypeInputs == {"eeg", "ECG", "emg"}
\* the sampling rates the analysis functions are called with
FsValues == {-100, 0, 80, 100, 200}

\* str.lower on the strings of the model
Lower(s) == CASE s = "Sair" -> "sair"
              [] s = "ECG" -> "ecg"
              [] OTHER -> s

\* os.path.exists
PathExists(f) == f \in {"novalue.csv", "empty.csv", "short3.csv", "short25.csv",
                        "rec400.csv"}
\* the columns and the rows of a recording: the timestamp column is the
\* defective one the recorder wrote, the value column the ADC readings
HasValueColumn(f) == f # "novalue.csv"
NumRows(f) == CASE f = "short3.csv" -> 3
                [] f = "short25.csv" -> 25
                [] f = "rec400.csv" -> 400
                [] OTHER -> 0
FileTimestamp(f, i) == (i * 13) % 7
FileValue(f, i) == ((i * 37) % 11) - 5

(* ---------------------------------------------------------------------- *)
(* load_signal_data                                                        *)
(* ---------------------------------------------------------------------- *)
EmptyArr == [i \in {} |-> 0]

\* numpy.arange(num_samples) / fs started at 1: an off-by-one time axis
NewTimelineFromOne(num_samples, fs_) ==
    [i \in 0..(num_samples - 1) |-> Rat(i + 1, fs_)]

\* numpy.arange(num_samples) / fs
NewTimeline(num_samples, fs_) ==
    [i \in 0..(num_samples - 1) |-> Rat(i, fs_)]

\* what load_signal_data returns (None, None is ok = FALSE) and what it did
load_signal_data(file_path, fs_) ==
    IF ~PathExists(file_path)
    THEN [ok |-> FALSE, timestamps |-> EmptyArr, signal |-> EmptyArr,
          stages |-> <<>>, out |-> <<"file_not_found">>]
    ELSE IF ~HasValueColumn(file_path)
    THEN [ok |-> FALSE, timestamps |-> EmptyArr, signal |-> EmptyArr,
          stages |-> <<"read_csv">>, out |-> <<"load_error">>]
    ELSE LET signal_ == [i \in 0..(NumRows(file_path) - 1) |-> FileValue(file_path, i)]
             num_samples == ALen(signal_)
         IN [ok |-> TRUE,
             timestamps |-> NewTimeline(num_samples, fs_),
             signal |-> signal_,
             stages |-> <<"read_csv", "time_axis">>,
             out |-> <<"file_loaded", "timeline_generated">>]

(* ---------------------------------------------------------------------- *)
(* plot_signal, butter, filtfilt                                           *)
(* ---------------------------------------------------------------------- *)
\* plot_signal: interp1d(kind='cubic') refuses fewer than 4 points; on a time
\* axis holding inf or nan the interpolation may or may not raise
PlotOutcomes(timestamps_) ==
    IF ALen(timestamps_) < 4 THEN {"ValueError"}
    ELSE IF \E i \in DOMAIN timestamps_ : ~RFinite(timestamps_[i])
         THEN {"ok", "ValueError"}
         ELSE {"ok"}

\* butter(order, [low, high], btype='band') accepts 0 < low < high < 1 only
ButterAccepts(low, high) ==
    /\ RLt(RInt(0), low) /\ RLt(low, RInt(1))
    /\ RLt(RInt(0), high) /\ RLt(high, RInt(1))
    /\ RLt(low, high)

\* filtfilt's default padlen, 3 * max(len(a), len(b)), for a band-pass of the order
Padlen(order) == 3 * (2 * order + 1)

\* the spikes of the filtered signals of the model and their amplitudes
SpikePos == {100, 120, 140, 200, 300}
Heights == {1, 30, 40}

SpikeTrain(N, spikes) ==
    [i \in 0..(N - 1) |-> IF i \in DOMAIN spikes THEN spikes[i] ELSE 0]

\* filtfilt(b, a, signal): an array of the signal's length; its values are
\* the filter's numerics, drawn here from the spike trains on a zero baseline
FiltfiltOutputs(signal_) ==
    LET N == ALen(signal_)
        places == {P \in SUBSET (SpikePos \cap 1..(N - 2)) : Cardinality(P) <= MaxSpikes}
    IN {SpikeTrain(N, sp) : sp \in UNION {[P -> Heights] : P \in places}}

(* ---------------------------------------------------------------------- *)
(* find_peaks(x, height, distance)                                         *)
(* ---------------------------------------------------------------------- *)
RECURSIVE SortedSeq(_)
SortedSeq(S) ==
    IF S = {} THEN <<>>
    ELSE LET m == CHOOSE x \in S : \A y \in S : x <= y
         IN <<m>> \o SortedSeq(S \ {m})

RECURSIVE PlateauEnd(_, _, _)
PlateauEnd(x, i, i_ahead) ==
    IF i_ahead < ALen(x) - 1 /\ x[i_ahead] = x[i]
    THEN PlateauEnd(x, i, i_ahead + 1)
    ELSE i_ahead

\* the local maxima: the midpoints of the plateaus that rise above both sides
LocalMaxima(x) ==
    LET rising == {i \in 1..(ALen(x) - 2) : x[i - 1] < x[i]}
        peaksAt == {i \in rising : x[PlateauEnd(x, i, i + 1)] < x[i]}
    IN {(i + PlateauEnd(x, i, i + 1) - 1) \div 2 : i \in peaksAt}

\* v >= numpy.mean(x) + 0.5 * numpy.std(x), in integers:
\* with n = len(x), S = sum(x), Q = sum(x^2) it reads 2 (n v - S) >= sqrt(n Q - S^2)
HeightReached(v, n, S, Q) ==
    /\ n * v - S >= 0
    /\ 4 * (n * v - S) * (n * v - S) >= n * Q - S * S

\* the candidates the height condition keeps, in index order
SelectByHeight(x) ==
    LET n == ALen(x)
        S == ASum(x)
        Q == ASum([i \in DOMAIN x |-> x[i] * x[i]])
    IN SortedSeq({p \in LocalMaxima(x) : HeightReached(x[p], n, S, Q)})

\* ceil(distance) for distance = fs * 0.3
DistanceSamples(fs_) == (3 * fs_ + 9) \div 10

\* the peaks a greedy left-to-right scan keeps: a candidate is accepted when
\* it lies at least d after the last accepted one
RECURSIVE GreedyFrom(_, _, _, _)
GreedyFrom(cands, d, k, acc) ==
    IF k > Len(cands) THEN acc
    ELSE IF acc = <<>> \/ cands[k] - acc[Len(acc)] >= d
         THEN GreedyFrom(cands, d, k + 1, Append(acc, cands[k]))
         ELSE GreedyFrom(cands, d, k + 1, acc)

GreedyLeftToRight(x, cands, d) == {GreedyFrom(cands, d, 1, <<>>)}

\* _select_by_peak_distance: the candidates are visited from the highest to the
\* lowest; a visited candidate still kept drops every other one closer than d.
\* numpy.argsort does not fix the order of equal heights: every order is a result.
RECURSIVE SelectFrom(_, _, _, _, _)
SelectFrom(x, cands, d, keep, todo) ==
    IF todo = {} THEN {keep}
    ELSE UNION {
           SelectFrom(x, cands, d,
                      IF j \in keep
                      THEN keep \ {k \in 1..Len(cands) :
                                     k # j /\ Abs(cands[k] - cands[j]) < d}
                      ELSE keep,
                      todo \ {j})
           : j \in {j \in todo : \A k \in todo : x[cands[k]] <= x[cands[j]]} }

SelectByPeakDistance(x, cands, d) ==
    {SortedSeq({cands[k] : k \in keep}) :
        keep \in SelectFrom(x, cands, d, 1..Len(cands), 1..Len(cands))}

\* the peak sets find_peaks may return
find_peaks(x, fs_) ==
    SelectByPeakDistance(x, SelectByHeight(x), DistanceSamples(fs_))

(* ---------------------------------------------------------------------- *)
(* The locals of one analysis call and how the call ended                  *)
(* ---------------------------------------------------------------------- *)
NaN == [n |-> 0, d |-> 0]

\* stages: the stages completed, in order; exc: the exception that escaped
\* ("" when the call returned); out: what was printed; the rest: the locals
Blank == [stages |-> <<>>, exc |-> "", out |-> <<>>,
          filtered_signal |-> EmptyArr, peaks |-> <<>>,
          rr_intervals_sec |-> <<>>, heart_rate_bpm |-> <<>>,
          avg_hr |-> NaN, min_hr |-> NaN, max_hr |-> NaN, hrv_sdnn_ms_sq |-> NaN,
          nperseg |-> 0, psd |-> EmptyArr, peak_freq |-> NaN]

Raised(stages_, exc_, out_) ==
    [Blank EXCEPT !.stages = stages_, !.exc = exc_, !.out = out_]

(* ---------------------------------------------------------------------- *)
(* analyze_ecg                                                             *)
(* ---------------------------------------------------------------------- *)
\* the square of numpy.std with ddof = 1: the sample variance
RVarSample(s) ==
    LET m == RMean(s)
    IN RDiv(RSum([i \in 1..Len(s) |-> RMul(RSub(s[i], m), RSub(s[i], m))]),
            RInt(Len(s) - 1))

\* the heart-rate features with the sample standard deviation for SDNN
HeartFeaturesSampleStd(r, peaks_, fs_) ==
    LET rr == [i \in 1..(Len(peaks_) - 1) |-> Rat(peaks_[i + 1] - peaks_[i], fs_)]
        hr == [i \in 1..Len(rr) |-> RDiv(RInt(60), rr[i])]
    IN [r EXCEPT !.rr_intervals_sec = rr, !.heart_rate_bpm = hr,
                 !.avg_hr = RMean(hr), !.min_hr = RMin(hr), !.max_hr = RMax(hr),
                 !.hrv_sdnn_ms_sq = RMul(RVarSample(rr), RInt(1000000))]

\* lines 132-138: numpy.diff(peaks) / fs, 60 / rr, mean, min, max, and SDNN:
\* hrv_sdnn_ms_sq is the square of numpy.std(rr_intervals_sec) * 1000
HeartFeatures(r, peaks_, fs_) ==
    LET rr == [i \in 1..(Len(peaks_) - 1) |-> Rat(peaks_[i + 1] - peaks_[i], fs_)]
        hr == [i \in 1..Len(rr) |-> RDiv(RInt(60), rr[i])]
    IN [r EXCEPT !.rr_intervals_sec = rr, !.heart_rate_bpm = hr,
                 !.avg_hr = RMean(hr), !.min_hr = RMin(hr), !.max_hr = RMax(hr),
                 !.hrv_sdnn_ms_sq = RMul(RVarPop(rr), RInt(1000000))]

\* two peaks are taken for enough
TooFewPeaksBelowTwo(peaks_) == Len(peaks_) < 2

\* line 115
TooFewPeaks(peaks_) == Len(peaks_) < 3

\* the ways a call analyze_ecg(timestamps, signal, fs) can end
analyze_ecg(timestamps_, signal_, fs_) ==
    UNION {
      IF plot1 # "ok" THEN {Raised(<<>>, plot1, <<"ecg_start">>)}
      ELSE IF fs_ = 0
      THEN {Raised(<<"plot_raw">>, "ZeroDivisionError", <<"ecg_start">>)}
      ELSE IF ~ButterAccepts(Rat(1, fs_), Rat(80, fs_))
      THEN {Raised(<<"plot_raw">>, "ValueError", <<"ecg_start">>)}
      ELSE IF ALen(signal_) <= Padlen(3)
      THEN {Raised(<<"plot_raw", "butter">>, "ValueError", <<"ecg_start">>)}
      ELSE UNION {
             { LET r == [Blank EXCEPT !.filtered_signal = filtered, !.peaks = peaks_]
               IN IF TooFewPeaks(peaks_)
                  THEN [r EXCEPT !.stages = <<"plot_raw", "butter", "filtfilt",
                                              "find_peaks">>,
                                 !.out = <<"ecg_start", "not_enough_peaks">>]
                  ELSE [HeartFeatures(r, peaks_, fs_)
                          EXCEPT !.stages = <<"plot_raw", "butter", "filtfilt",
                                              "find_peaks", "plot_filtered",
                                              "plot_peaks", "features">>,
                                 !.out = <<"ecg_start", "peaks_detected",
                                           "heart_results">>]
               : peaks_ \in find_peaks(filtered, fs_) }
             : filtered \in FiltfiltOutputs(signal_) }
      : plot1 \in PlotOutcomes(timestamps_) }

(* ---------------------------------------------------------------------- *)
(* analyze_eeg                                                             *)
(* ---------------------------------------------------------------------- *)
\* the bins of the PSD estimates of the model that may rise above the floor
BumpBins == {0, 2, 3, 32, 40, 48, 49, 179, 180, 200}
BumpPowers == {2, 3}

\* welch(signal, fs, nperseg=fs*4): the segment is cut to the signal's length
WelchSegment(signal_, fs_) ==
    IF 4 * fs_ > ALen(signal_) THEN ALen(signal_) ELSE 4 * fs_

\* freqs[k] of a segment of nperseg samples
BinFreq(k, fs_, nperseg_) == Rat(k * fs_, nperseg_)

\* the power values welch may return for the bins 0 .. nperseg // 2: the
\* estimator's numerics, drawn here from a floor of 1 with a few higher bins
WelchOutputs(nperseg_) ==
    LET K == nperseg_ \div 2
        places == {B \in SUBSET (BumpBins \cap 0..K) : Cardinality(B) <= MaxBumps}
    IN {[k \in 0..K |-> IF k \in DOMAIN b THEN b[k] ELSE 1] :
          b \in UNION {[B -> BumpPowers] : B \in places}}

\* the mask with the lower edge included: freqs >= 0.5
BandMaskClosedBelow(fs_, nperseg_) ==
    {k \in 0..(nperseg_ \div 2) :
        /\ RLe(Rat(1, 2), BinFreq(k, fs_, nperseg_))
        /\ RLt(BinFreq(k, fs_, nperseg_), RInt(45))}

\* the bins of the mask (freqs > 0.5) & (freqs < 45)
BandMask(fs_, nperseg_) ==
    {k \in 0..(nperseg_ \div 2) :
        /\ RLt(Rat(1, 2), BinFreq(k, fs_, nperseg_))
        /\ RLt(BinFreq(k, fs_, nperseg_), RInt(45))}

\* numpy.argmax over the masked bins: the first bin holding the maximum
ArgMax(psd_, mask) ==
    CHOOSE k \in mask : /\ \A j \in mask : psd_[j] <= psd_[k]
                        /\ \A j \in mask : psd_[j] = psd_[k] => k <= j

\* line 101: 8 <= peak_freq <= 12
IsAlpha(f) == RLe(RInt(8), f) /\ RLe(f, RInt(12))

\* the ways a call analyze_eeg(timestamps, signal, fs) can end
analyze_eeg(timestamps_, signal_, fs_) ==
    UNION {
      IF plot1 # "ok" THEN {Raised(<<>>, plot1, <<"eeg_start">>)}
      ELSE IF fs_ = 0
      THEN {Raised(<<"plot_raw">>, "ZeroDivisionError", <<"eeg_start">>)}
      ELSE IF ~ButterAccepts(Rat(2, fs_), Rat(90, fs_))
      THEN {Raised(<<"plot_raw">>, "ValueError", <<"eeg_start">>)}
      ELSE IF ALen(signal_) <= Padlen(4)
      THEN {Raised(<<"plot_raw", "butter">>, "ValueError", <<"eeg_start">>)}
      ELSE LET nperseg_ == WelchSegment(signal_, fs_)
               mask == BandMask(fs_, nperseg_)
           IN { IF mask = {}
                THEN [Blank EXCEPT !.stages = <<"plot_raw", "butter", "filtfilt",
                                                "plot_filtered", "welch", "plot_psd">>,
                                   !.exc = "ValueError",
                                   !.out = <<"eeg_start", "computing_psd">>,
                                   !.nperseg = nperseg_, !.psd = psd_]
                ELSE LET f == BinFreq(ArgMax(psd_, mask), fs_, nperseg_)
                     IN [Blank EXCEPT !.stages = <<"plot_raw", "butter", "filtfilt",
                                                   "plot_filtered", "welch",
                                                   "plot_psd", "peak_freq">>,
                                      !.out = IF IsAlpha(f)
                                              THEN <<"eeg_start", "computing_psd",
                                                     "peak_freq", "alpha_note">>
                                              ELSE <<"eeg_start", "computing_psd",
                                                     "peak_freq">>,
                                      !.nperseg = nperseg_, !.psd = psd_,
                                      !.peak_freq = f]
                : psd_ \in WelchOutputs(nperseg_) }
      : plot1 \in PlotOutcomes(timestamps_) }

(* ---------------------------------------------------------------------- *)
(* The live plotter's data: deques, request bodies                         *)
(* ---------------------------------------------------------------------- *)
\* collections.deque(maxlen=m)
Deque(items_, maxlen_) ==
    [items |-> IF Len(items_) > maxlen_
               THEN SubSeq(items_, Len(items_) - maxlen_ + 1, Len(items_))
               ELSE items_,
     maxlen |-> maxlen_]
DequeAppend(dq, x) ==
    [dq EXCEPT !.items = IF Len(dq.items) >= dq.maxlen
                         THEN Append(Tail(dq.items), x)
                         ELSE Append(dq.items, x)]
DequeAppendLeft(dq, x) ==
    [dq EXCEPT !.items = IF Len(dq.items) >= dq.maxlen
                         THEN <<x>> \o SubSeq(dq.items, 1, dq.maxlen - 1)
                         ELSE <<x>> \o dq.items]

\* the JSON bodies the sensor posts: an object is the sequence of its
\* <<key, value>> members; "3" and "4" are numbers, "x" is a string that is no
\* number, "HUGE" is an integer beyond the range of a float
Bodies == { [is_dict |-> TRUE, items |-> <<<<"value1", "3">>>>],
            [is_dict |-> TRUE, items |-> <<<<"value1", "x">>, <<"value2", "4">>>>],
            [is_dict |-> TRUE, items |-> <<<<"temp", "3">>>>],
            [is_dict |-> TRUE, items |-> <<<<"value2", "HUGE">>>>],
            [is_dict |-> FALSE, items |-> <<>>] }

\* key.startswith('value')
StartsWithValue(key) == key \in {"value1", "value2"}

\* float(value): the number, or the exception raised
Float(value) == CASE value = "3" -> [exc |-> "", v |-> "3.0"]
                  [] value = "4" -> [exc |-> "", v |-> "4.0"]
                  [] value = "HUGE" -> [exc |-> "OverflowError", v |-> ""]
                  [] OTHER -> [exc |-> "ValueError", v |-> ""]

\* the text typed into the max-points entry, and int(text)
EntryInputs == {"x", "1", "2"}
ParseInt(text) == CASE text = "1" -> [exc |-> "", v |-> 1]
                    [] text = "2" -> [exc |-> "", v |-> 2]
                    [] OTHER -> [exc |-> "ValueError", v |-> 0]
\* str(n) for the values max_points takes
Str(n) == CASE n = 2 -> "2" [] OTHER -> "50"

(* ---------------------------------------------------------------------- *)
(* State                                                                   *)
(* ---------------------------------------------------------------------- *)
VARIABLES
    \* data_anal.py
    pc,             \* where main is: Idle (at the file prompt), Load, Dispatch,
                    \* EEGPath, ECGPath, Done, Exited, Crashed
    fs,             \* the sampling rate main passes on
    file_name, signal_type,
    timestamps, signal, signal_is_none,
    result,         \* the locals of the analysis call of this run
    trace,          \* the stages this run completed, in order
    out,            \* what this run printed, in order
    \* flask_app/app.py
    data_queue,     \* the queue.Queue between the two threads
    clock,          \* datetime.now(), counted in requests
    sent,           \* the requests posted so far
    responses,      \* the answers of receive_data, in order
    is_paused, max_points, max_points_var,
    plot_timestamps, sensor_data,
    gui_pc,         \* idle, or loop: inside check_queue's while loop
    consumed,       \* the timestamps of the points check_queue took, in order
    gui_errors,     \* the exceptions check_queue caught and printed
    put_paused      \* the timestamps of the points enqueued during a pause

anal_vars == <<pc, fs, file_name, signal_type, timestamps, signal, signal_is_none,
               result, trace, out>>
plot_vars == <<data_queue, clock, sent, responses, is_paused, max_points,
               max_points_var, plot_timestamps, sensor_data, gui_pc, consumed,
               gui_errors, put_paused>>
vars == <<anal_vars, plot_vars>>

\* SensorPlotterApp.__init__ and the module's globals
InitPlot ==
    /\ data_queue = <<>>
    /\ clock = 0
    /\ sent = 0
    /\ responses = <<>>
    /\ is_paused = FALSE
    /\ max_points = INITIAL_MAX_POINTS
    /\ max_points_var = Str(INITIAL_MAX_POINTS)
    /\ plot_timestamps = Deque(<<>>, INITIAL_MAX_POINTS)
    /\ sensor_data = <<>>
    /\ gui_pc = "idle"
    /\ consumed = <<>>
    /\ gui_errors = 0
    /\ put_paused = {}

InitAnal ==
    /\ pc = "Idle"
    /\ file_name = ""
    /\ signal_type = ""
    /\ timestamps = EmptyArr
    /\ signal = EmptyArr
    /\ signal_is_none = TRUE
    /\ result = Blank
    /\ trace = <<>>
    /\ out = <<>>

(* ---------------------------------------------------------------------- *)
(* main of data_anal.py                                                    *)
(* ---------------------------------------------------------------------- *)
\* lines 152-155: the two prompts; 'sair' leaves the loop
Prompt ==
    /\ pc = "Idle"
    /\ \E f \in FileInputs :
         IF Lower(f) = "sair"
         THEN /\ pc' = "Exited"
              /\ UNCHANGED <<file_name, signal_type>>
         ELSE \E t \in TypeInputs :
                /\ file_name' = f
                /\ signal_type' = Lower(t)
                /\ pc' = "Load"
    /\ UNCHANGED <<fs, timestamps, signal, signal_is_none, result, trace, out>>
    /\ UNCHANGED plot_vars

\* line 157
LoadSignalData ==
    /\ pc = "Load"
    /\ LET r == load_signal_data(file_name, fs)
       IN /\ timestamps' = r.timestamps
          /\ signal' = r.signal
          /\ signal_is_none' = ~r.ok
          /\ trace' = trace \o r.stages
          /\ out' = out \o r.out
    /\ pc' = "Dispatch"
    /\ UNCHANGED <<fs, file_name, signal_type, result>>
    /\ UNCHANGED plot_vars

\* lines 159-167: the branch on the load's result and on the selector
Dispatch ==
    /\ pc = "Dispatch"
    /\ IF signal_is_none
       THEN /\ out' = Append(out, "load_failed")
            /\ pc' = "Done"
       ELSE IF signal_type = "eeg"
       THEN /\ pc' = "EEGPath"
            /\ out' = out
       ELSE IF signal_type = "ecg"
       THEN /\ pc' = "ECGPath"
            /\ out' = out
       ELSE /\ out' = Append(out, "invalid_signal_type")
            /\ pc' = "Done"
    /\ UNCHANGED <<fs, file_name, signal_type, timestamps, signal, signal_is_none,
                   result, trace>>
    /\ UNCHANGED plot_vars

\* line 161: the call of analyze_eeg; an exception it raises ends main
AnalyzeEEG ==
    /\ pc = "EEGPath"
    /\ \E r \in analyze_eeg(timestamps, signal, fs) :
         /\ result' = r
         /\ trace' = trace \o r.stages
         /\ out' = out \o r.out
         /\ pc' = IF r.exc = "" THEN "Done" ELSE "Crashed"
    /\ UNCHANGED <<fs, file_name, signal_type, timestamps, signal, signal_is_none>>
    /\ UNCHANGED plot_vars

\* line 163: the call of analyze_ecg; an exception it raises ends main
AnalyzeECG ==
    /\ pc = "ECGPath"
    /\ \E r \in analyze_ecg(timestamps, signal, fs) :
         /\ result' = r
         /\ trace' = trace \o r.stages
         /\ out' = out \o r.out
         /\ pc' = IF r.exc = "" THEN "Done" ELSE "Crashed"
    /\ UNCHANGED <<fs, file_name, signal_type, timestamps, signal, signal_is_none>>
    /\ UNCHANGED plot_vars

\* line 148: the loop starts over; the run's locals and output are gone
NextRun ==
    /\ pc = "Done"
    /\ pc' = "Idle"
    /\ result' = Blank
    /\ trace' = <<>>
    /\ out' = <<>>
    /\ UNCHANGED <<fs, file_name, signal_type, timestamps, signal, signal_is_none>>
    /\ UNCHANGED plot_vars

NextAnal == Prompt \/ LoadSignalData \/ Dispatch \/ AnalyzeEEG \/ AnalyzeECG \/ NextRun

\* main as written: fs is EXPECTED_FS
Init == InitAnal /\ fs = EXPECTED_FS /\ InitPlot
Spec == Init /\ [][NextAnal]_vars

\* the analysis functions called with any sampling rate
InitAnyFs == InitAnal /\ fs \in FsValues /\ InitPlot
SpecAnyFs == InitAnyFs /\ [][NextAnal]_vars

(* ---------------------------------------------------------------------- *)
(* Properties of data_anal.py                                              *)
(* ---------------------------------------------------------------------- *)
InSeq(x, s) == \E i \in 1..Len(s) : s[i] = x

\* the run got past the load and the selector named a path
InPathRun == /\ pc \in {"Done", "Crashed"}
             /\ ~signal_is_none
             /\ signal_type \in {"eeg", "ecg"}

\* C1 (as claimed): when a run rejects a selector that is neither 'eeg' nor
\* 'ecg', it has done no work before: no file was read and no time axis built.
C1_NoWorkBeforeRejection ==
    (pc = "Done" /\ signal_type \notin {"eeg", "ecg"}
                 /\ InSeq("invalid_signal_type", out))
        => trace = <<>>

\* 0 < low < high < fs / 2 and fs > 0, with the cutoffs doubled (1 is 0.5 Hz)
FilterSpecValid(low2, high2, fs_) ==
    fs_ > 0 /\ 0 < low2 /\ low2 < high2 /\ high2 < fs_

PathFilterValid ==
    IF signal_type = "eeg" THEN FilterSpecValid(2, 90, fs)
                           ELSE FilterSpecValid(1, 80, fs)

\* C2 (as claimed): when the fixed cutoffs of the path taken violate
\* 0 < low < high < fs/2, or fs <= 0, the run reports an invalid configuration
\* before any plotting or filtering stage, no exception escapes and main goes
\* on (recordings long enough to be plotted and filtered).
C2_InvalidFilterReported ==
    (InPathRun /\ ~PathFilterValid /\ ALen(signal) > Padlen(4))
        => /\ pc = "Done"
           /\ result.exc = ""
           /\ InSeq("invalid_configuration", out)
           /\ ~InSeq("plot_raw", trace)

\* the run holds a loaded recording
HoldsLoaded == /\ pc \in {"Dispatch", "EEGPath", "ECGPath", "Done", "Crashed"}
               /\ ~signal_is_none

\* C3: a recording of N > 0 samples loaded with fs > 0 comes with a time axis
\* of exactly N entries that starts at 0 and rises by 1/fs per sample, so
\* TimeAxis[i] = i/fs: a function of N and fs alone; the signal is the value
\* column.
C3_TimeAxis ==
    (HoldsLoaded /\ fs > 0 /\ ALen(signal) > 0)
        => LET N == ALen(signal)
           IN /\ N = NumRows(file_name)
              /\ ALen(timestamps) = N
              /\ DOMAIN timestamps = 0..(N - 1)
              /\ timestamps[0] = RInt(0)
              /\ \A i \in 0..(N - 1) :
                    /\ RFinite(timestamps[i])
                    /\ timestamps[i].n * fs = i * timestamps[i].d
                    /\ signal[i] = FileValue(file_name, i)
              /\ \A i \in 0..(N - 2) :
                    /\ RLt(timestamps[i], timestamps[i + 1])
                    /\ RMul(RSub(timestamps[i + 1], timestamps[i]), RInt(fs)) = RInt(1)

\* a 400-sample recording loaded at 200 Hz, whose own timestamp column is
\* neither increasing nor the axis built
C3_Witness ==
    /\ pc = "Dispatch" /\ ~signal_is_none /\ fs = 200
    /\ ALen(timestamps) = 400
    /\ FileTimestamp(file_name, 7) < FileTimestamp(file_name, 6)
    /\ timestamps[399] = Rat(399, 200)

\* the ECG run reached the peak detector
DetectorRan == /\ signal_type = "ecg"
               /\ pc \in {"Done", "Crashed"}
               /\ InSeq("find_peaks", trace)

NoHeartFeatures ==
    /\ result.rr_intervals_sec = <<>>
    /\ result.heart_rate_bpm = <<>>
    /\ result.avg_hr = NaN /\ result.min_hr = NaN /\ result.max_hr = NaN
    /\ result.hrv_sdnn_ms_sq = NaN
    /\ ~InSeq("features", trace)
    /\ ~InSeq("heart_results", out)

AllHeartFeatures ==
    /\ Len(result.rr_intervals_sec) = Len(result.peaks) - 1
    /\ Len(result.heart_rate_bpm) = Len(result.peaks) - 1
    /\ RFinite(result.avg_hr) /\ RFinite(result.min_hr) /\ RFinite(result.max_hr)
    /\ RFinite(result.hrv_sdnn_ms_sq)
    /\ InSeq("features", trace)
    /\ InSeq("heart_results", out)

\* C4: on the ECG path, fewer than 3 peaks (none on a flat line included) end
\* the run with the not-enough-peaks message, without an exception and without
\* any heart-rate feature; 3 or more peaks give all of them.
C4_FewPeaks ==
    DetectorRan
        => /\ pc = "Done" /\ result.exc = ""
           /\ IF Len(result.peaks) < 3
              THEN InSeq("not_enough_peaks", out) /\ NoHeartFeatures
              ELSE ~InSeq("not_enough_peaks", out) /\ AllHeartFeatures

\* a flat line: no peak at all
C4_Witness ==
    /\ DetectorRan /\ pc = "Done"
    /\ \A i \in DOMAIN result.filtered_signal : result.filtered_signal[i] = 0
    /\ result.peaks = <<>>
    /\ InSeq("not_enough_peaks", out)

\* C5 (as claimed): the peaks are those of a greedy left-to-right scan over the
\* local maxima that reach the height: a candidate is kept when it lies at
\* least 0.3 fs samples after the last kept one, so the earliest of two
\* conflicting candidates wins.
C5_GreedyLeftToRight ==
    DetectorRan
        => result.peaks = GreedyFrom(SelectByHeight(result.filtered_signal),
                                     DistanceSamples(fs), 1, <<>>)

\* C5 (amended): the peaks are candidates (local maxima reaching
\* mean + 0.5 std), strictly increasing, any two at least 0.3 fs samples
\* apart, and every candidate left out lies closer than 0.3 fs samples to a
\* kept peak that is at least as high: of two conflicting candidates the
\* higher wins, not the earlier.
C5_HighestFirst ==
    DetectorRan
        => LET x == result.filtered_signal
               P == result.peaks
               cands == SelectByHeight(x)
               kept == {P[i] : i \in 1..Len(P)}
               close(p, q) == 10 * Abs(p - q) < 3 * fs
           IN /\ \A i \in 1..(Len(P) - 1) : P[i] < P[i + 1]
              /\ \A p \in kept : InSeq(p, cands)
              /\ \A p \in kept : \A q \in kept : p # q => ~close(p, q)
              /\ \A k \in 1..Len(cands) :
                    cands[k] \notin kept
                        => \E p \in kept : close(p, cands[k]) /\ x[p] >= x[cands[k]]

\* a higher candidate 20 samples after a lower one: the later one is kept
C5_Witness ==
    /\ DetectorRan
    /\ ALen(result.filtered_signal) = 400
    /\ result.filtered_signal[100] = 30
    /\ result.filtered_signal[120] = 40
    /\ result.peaks = <<120>>

\* C6: for 3 or more peaks, RR[i] = (peak[i+1] - peak[i]) / fs > 0, one fewer
\* than the peaks; HR[i] = 60 / RR[i]; the mean, minimum and maximum of HR are
\* reported (min <= mean <= max); SDNN is the population standard deviation of
\* RR in ms (its square is checked).  Peaks 100, 200, 300 at 100 Hz give
\* RR = 1, 1, HR 60 throughout and SDNN 0.
C6_HeartFeatures ==
    (DetectorRan /\ Len(result.peaks) >= 3)
        => LET P == result.peaks
               rr == result.rr_intervals_sec
               hr == result.heart_rate_bpm
               n == Len(P) - 1
               d(i) == P[i + 1] - P[i]
               sumD == RSum([i \in 1..n |-> RInt(d(i))]).n
               sumD2 == RSum([i \in 1..n |-> RInt(d(i) * d(i))]).n
           IN /\ Len(rr) = n /\ Len(hr) = n
              /\ \A i \in 1..n :
                    /\ rr[i].n * fs = d(i) * rr[i].d
                    /\ RLt(RInt(0), rr[i])
                    /\ RMul(hr[i], rr[i]) = RInt(60)
                    /\ RLe(result.min_hr, hr[i])
                    /\ RLe(hr[i], result.max_hr)
              /\ InSeq(result.min_hr, hr) /\ InSeq(result.max_hr, hr)
              /\ RMul(result.avg_hr, RInt(n)) = RSum(hr)
              /\ RLe(result.min_hr, result.avg_hr)
              /\ RLe(result.avg_hr, result.max_hr)
              /\ result.hrv_sdnn_ms_sq
                   = RMul(Rat(n * sumD2 - sumD * sumD, n * n * fs * fs), RInt(1000000))
              /\ (P = <<100, 200, 300>> /\ fs = 100)
                    => /\ rr = <<RInt(1), RInt(1)>>
                       /\ hr = <<RInt(60), RInt(60)>>
                       /\ result.avg_hr = RInt(60)
                       /\ result.min_hr = RInt(60)
                       /\ result.max_hr = RInt(60)
                       /\ result.hrv_sdnn_ms_sq = RInt(0)

\* the peaks 100, 200, 300 at 100 Hz
C6_Witness ==
    /\ DetectorRan /\ fs = 100
    /\ result.peaks = <<100, 200, 300>>
    /\ result.avg_hr = RInt(60)
    /\ InSeq("heart_results", out)

\* C7 (as claimed): a path is entered only with a loaded recording, and every
\* run reaches Done and returns to the prompt: no run ends main.
C7_EveryRunReachesDone ==
    /\ pc \in {"EEGPath", "ECGPath"} => ~signal_is_none
    /\ pc = "EEGPath" => signal_type = "eeg"
    /\ pc = "ECGPath" => signal_type = "ecg"
    /\ pc # "Crashed"

\* C8: the dominant frequency reported is the frequency of the first bin of
\* maximum power among the bins strictly between 0.5 Hz and 45 Hz, so it lies
\* in (0.5, 45); the Alpha note is printed exactly when it lies in [8, 12].
C8_DominantFrequency ==
    (pc = "Done" /\ InSeq("peak_freq", trace))
        => LET f == result.peak_freq
               n == result.nperseg
               inBand(k) == 2 * k * fs > n /\ k * fs < 45 * n
           IN /\ RFinite(f)
              /\ 2 * f.n > f.d /\ f.n < 45 * f.d
              /\ \E k \in DOMAIN result.psd :
                    /\ f.n * n = k * fs * f.d
                    /\ inBand(k)
                    /\ \A j \in DOMAIN result.psd :
                          inBand(j) => /\ result.psd[j] <= result.psd[k]
                                       /\ j < k => result.psd[j] < result.psd[k]
              /\ InSeq("alpha_note", out) <=> (8 * f.d <= f.n /\ f.n <= 12 * f.d)

\* the maximum sits at 12 Hz, the upper edge of the Alpha band, although the
\* bin at 45 Hz holds more power
C8_Witness ==
    /\ pc = "Done" /\ InSeq("peak_freq", trace) /\ fs = 100
    /\ result.peak_freq = RInt(12)
    /\ result.psd[48] = 2 /\ result.psd[180] = 3
    /\ InSeq("alpha_note", out)

(* ---------------------------------------------------------------------- *)
(* flask_app/app.py                                                        *)
(* ---------------------------------------------------------------------- *)
\* Queue.put
QueuePut(q, item) == Append(q, item)

\* a get that hands out the newest item
QueueGetNewest(q) == [item |-> q[Len(q)], rest |-> SubSeq(q, 1, Len(q) - 1)]

\* Queue.get_nowait on a queue that is not empty
QueueGet(q) == [item |-> Head(q), rest |-> Tail(q)]

\* receive_data, in the Flask thread: a body that is no JSON object makes
\* data['timestamp'] = ... raise, which is answered with an error
ReceiveData ==
    /\ sent < MaxRequests
    /\ sent' = sent + 1
    /\ \E body \in Bodies :
         IF body.is_dict
         THEN /\ clock' = clock + 1
              /\ data_queue' = QueuePut(data_queue,
                                        [timestamp |-> clock + 1, items |-> body.items])
              /\ responses' = Append(responses,
                                     [status |-> "success", timestamp |-> clock + 1])
              /\ put_paused' = IF is_paused THEN put_paused \cup {clock + 1}
                                            ELSE put_paused
         ELSE /\ responses' = Append(responses, [status |-> "error", timestamp |-> 0])
              /\ UNCHANGED <<clock, data_queue, put_paused>>
    /\ UNCHANGED <<is_paused, max_points, max_points_var, plot_timestamps,
                   sensor_data, gui_pc, consumed, gui_errors>>
    /\ UNCHANGED anal_vars

\* toggle_pause, a Tk callback: it runs between two callbacks of the Tk thread
TogglePause ==
    /\ gui_pc = "idle"
    /\ is_paused' = ~is_paused
    /\ UNCHANGED <<data_queue, clock, sent, responses, max_points, max_points_var,
                   plot_timestamps, sensor_data, gui_pc, consumed, gui_errors,
                   put_paused>>
    /\ UNCHANGED anal_vars

\* apply_max_points, a Tk callback, with the text the user typed
ApplyMaxPoints ==
    /\ gui_pc = "idle"
    /\ \E text \in EntryInputs :
         LET new_max == ParseInt(text)
         IN IF new_max.exc # "" \/ new_max.v <= 1
            THEN /\ max_points_var' = Str(max_points)
                 /\ UNCHANGED <<max_points, plot_timestamps, sensor_data>>
            ELSE /\ max_points' = new_max.v
                 /\ max_points_var' = text
                 /\ plot_timestamps' = Deque(plot_timestamps.items, new_max.v)
                 /\ sensor_data' = [key \in DOMAIN sensor_data |->
                                       Deque(sensor_data[key].items, new_max.v)]
    /\ UNCHANGED <<data_queue, clock, sent, responses, is_paused, gui_pc, consumed,
                   gui_errors, put_paused>>
    /\ UNCHANGED anal_vars

\* add_new_series
add_new_series(sd, key, max_points_) ==
    IF key \in DOMAIN sd THEN sd ELSE sd @@ (key :> Deque(<<>>, max_points_))

\* lines 200-207: the members of the data point, in order; an exception that
\* is neither a ValueError nor a TypeError leaves the loop
RECURSIVE ProcessItems(_, _, _, _)
ProcessItems(sd, items, k, max_points_) ==
    IF k > Len(items) THEN [sd |-> sd, exc |-> ""]
    ELSE LET key == items[k][1]
             value == items[k][2]
         IN IF ~StartsWithValue(key) THEN ProcessItems(sd, items, k + 1, max_points_)
            ELSE LET sd1 == add_new_series(sd, key, max_points_)
                     fl == Float(value)
                 IN IF fl.exc = ""
                    THEN ProcessItems([sd1 EXCEPT ![key] = DequeAppend(@, fl.v)],
                                      items, k + 1, max_points_)
                    ELSE IF fl.exc \in {"ValueError", "TypeError"}
                    THEN ProcessItems([sd1 EXCEPT ![key] = DequeAppend(@, "0")],
                                      items, k + 1, max_points_)
                    ELSE [sd |-> sd1, exc |-> fl.exc]

\* lines 209-211: every series is filled from the left up to the timestamps
RECURSIVE PadLeft(_, _)
PadLeft(dq, n) ==
    IF Len(dq.items) < n THEN PadLeft(DequeAppendLeft(dq, "None"), n) ELSE dq

\* check_queue, a Tk timer callback, up to its while loop
CheckQueueBegin ==
    /\ gui_pc = "idle"
    /\ gui_pc' = IF is_paused THEN "idle" ELSE "loop"
    /\ UNCHANGED <<data_queue, clock, sent, responses, is_paused, max_points,
                   max_points_var, plot_timestamps, sensor_data, consumed, gui_errors,
                   put_paused>>
    /\ UNCHANGED anal_vars

\* one turn of the while loop: a data point is taken and stored
CheckQueueTake ==
    /\ gui_pc = "loop"
    /\ data_queue # <<>>
    /\ LET got == QueueGet(data_queue)
           ts1 == DequeAppend(plot_timestamps, got.item.timestamp)
           r == ProcessItems(sensor_data, got.item.items, 1, max_points)
       IN /\ data_queue' = got.rest
          /\ consumed' = Append(consumed, got.item.timestamp)
          /\ plot_timestamps' = ts1
          /\ IF r.exc = ""
             THEN /\ sensor_data' = [key \in DOMAIN r.sd |->
                                        PadLeft(r.sd[key], Len(ts1.items))]
                  /\ UNCHANGED <<gui_pc, gui_errors>>
             ELSE /\ sensor_data' = r.sd
                  /\ gui_pc' = "idle"
                  /\ gui_errors' = gui_errors + 1
    /\ UNCHANGED <<clock, sent, responses, is_paused, max_points, max_points_var,
                   put_paused>>
    /\ UNCHANGED anal_vars

\* the queue is empty: update_plot, and the timer is set again
CheckQueueEnd ==
    /\ gui_pc = "loop"
    /\ data_queue = <<>>
    /\ gui_pc' = "idle"
    /\ UNCHANGED <<data_queue, clock, sent, responses, is_paused, max_points,
                   max_points_var, plot_timestamps, sensor_data, consumed, gui_errors,
                   put_paused>>
    /\ UNCHANGED anal_vars

NextPlot == \/ ReceiveData \/ TogglePause \/ ApplyMaxPoints
            \/ CheckQueueBegin \/ CheckQueueTake \/ CheckQueueEnd

\* the Tk timer fires check_queue again and again, and a callback runs on
SpecPlot == /\ Init /\ [][NextPlot]_vars
            /\ WF_vars(CheckQueueBegin)
            /\ WF_vars(CheckQueueTake)
            /\ WF_vars(CheckQueueEnd)

(* ---------------------------------------------------------------------- *)
(* Properties of flask_app/app.py                                          *)
(* ---------------------------------------------------------------------- *)
\* C9 (as claimed): whenever no check_queue or apply_max_points is running,
\* every series buffer is exactly as long as the timestamps buffer, and no
\* longer than max_points.
C9_BuffersAligned ==
    gui_pc = "idle"
        => \A key \in DOMAIN sensor_data :
              /\ Len(sensor_data[key].items) = Len(plot_timestamps.items)
              /\ Len(sensor_data[key].items) <= max_points

QueuedStamps == [i \in 1..Len(data_queue) |-> data_queue[i].timestamp]
AckedStamps ==
    LET RECURSIVE pick(_)
        pick(k) == IF k > Len(responses) THEN <<>>
                   ELSE IF responses[k].status = "success"
                        THEN <<responses[k].timestamp>> \o pick(k + 1)
                        ELSE pick(k + 1)
    IN pick(1)
IsPrefix(a, b) == Len(a) <= Len(b) /\ SubSeq(b, 1, Len(a)) = a

\* every point answered with success is, in the order of the answers, either
\* taken already or still queued, each exactly once
C10_ExactlyOnceInOrder ==
    /\ consumed \o QueuedStamps = AckedStamps
    /\ \A i \in 1..Len(AckedStamps) : \A j \in 1..Len(AckedStamps) :
          i < j => AckedStamps[i] < AckedStamps[j]

\* C10: with the receiver and check_queue interleaved, every point answered
\* with success is enqueued once and taken once, in the order enqueued; a step
\* taken while paused removes nothing from the queue; a point in the queue
\* while the plotter is not paused is taken unless the plotter is paused again.
C10_QueueHandOver ==
    /\ []C10_ExactlyOnceInOrder
    /\ [][is_paused => (consumed' = consumed /\ IsPrefix(data_queue, data_queue'))]_vars
    /\ \A t \in 1..MaxRequests :
          (~is_paused /\ InSeq(t, QueuedStamps)) ~> (InSeq(t, consumed) \/ is_paused)

\* two points were enqueued during a pause and taken, in order, after the resume
C10_Witness ==
    /\ ~is_paused
    /\ put_paused = {1, 2}
    /\ consumed = <<1, 2>>
    /\ gui_pc = "idle"
    /\ Len(plot_timestamps.items) = 2

====
